---- MODULE Spec2Model ----
(***************************************************************************)
(* A model of the AI job recommendation engine (recommender.py) and of the *)
(* Flask request layer in front of it (app.py).                            *)
(*                                                                         *)
(* Text is modelled as TLA+ strings, handled character by character, so    *)
(* that lower(), strip(), split(), "in" and int() are computed the way     *)
(* Python computes them.                                                   *)
(***************************************************************************)
EXTENDS Integers, Sequences, FiniteSets, TLC

(***************************************************************************)
(* Bounds of the model.                                                    *)
(***************************************************************************)
\* longest generated text handed to extract_skills_from_text
MaxTextLen == 3
\* largest number of rows of data/jobs.csv
MaxJobs == 2

(***************************************************************************)
(* Python string primitives.                                               *)
(***************************************************************************)
Char(s, i) == SubSeq(s, i, i)

UpperLetters == "ABCDEFGHIJKLMNOPQRSTUVWXYZ"

LowerLetters == "abcdefghijklmnopqrstuvwxyz"

\* str.lower() on one character
LowerChar(c) ==
    IF \E i \in 1..26 : Char(UpperLetters, i) = c
    THEN Char(LowerLetters, CHOOSE i \in 1..26 : Char(UpperLetters, i) = c)
    ELSE c

RECURSIVE Lower(_)
\* str.lower()
Lower(s) == IF s = "" THEN "" ELSE LowerChar(Head(s)) \o Lower(Tail(s))

IsSpace(c) == c \in {" ", "\t", "\n"}

RECURSIVE LStrip(_)
LStrip(s) == IF s # "" /\ IsSpace(Head(s)) THEN LStrip(Tail(s)) ELSE s

RECURSIVE RStrip(_)
RStrip(s) ==
    IF s # "" /\ IsSpace(Char(s, Len(s)))
    THEN RStrip(SubSeq(s, 1, Len(s) - 1))
    ELSE s

\* str.strip()
Strip(s) == RStrip(LStrip(s))

\* Python's "sub in s" on strings
Contains(sub, s) ==
    \E i \in 1..(Len(s) - Len(sub) + 1) : SubSeq(s, i, i + Len(sub) - 1) = sub

RECURSIVE SplitFrom(_, _, _)
\* the pieces of s from position i on, cur being the piece under construction
SplitFrom(s, sep, cur) ==
    IF s = "" THEN <<cur>>
    ELSE IF Head(s) = sep THEN <<cur>> \o SplitFrom(Tail(s), sep, "")
    ELSE SplitFrom(Tail(s), sep, cur \o Head(s))

\* str.split(sep) for a one-character separator
Split(s, sep) == SplitFrom(s, sep, "")

(***************************************************************************)
(* 2. Skill and keyword extractor.                                         *)
(***************************************************************************)
COMMON_SKILLS ==
    << "python", "java", "javascript", "typescript", "c++", "c#", "swift", "kotlin",
       "react", "angular", "vue", "node.js", "flask", "django", "spring",
       "sql", "mysql", "postgresql", "mongodb", "redis", "oracle",
       "aws", "azure", "gcp", "docker", "kubernetes", "terraform", "jenkins",
       "machine learning", "deep learning", "nlp", "computer vision",
       "tensorflow", "pytorch", "scikit-learn", "pandas", "numpy",
       "git", "linux", "rest api", "graphql", "microservices",
       "spark", "kafka", "airflow", "tableau", "power bi",
       "html", "css", "agile", "scrum", "devops", "ci/cd",
       "blockchain", "solidity", "web3", "ethereum",
       "data analysis", "statistics", "excel", "r" >>

\* a slip that matches the vocabulary against the text as typed
extract_skills_no_lower(text) ==
    { COMMON_SKILLS[i] : i \in { j \in 1..Len(COMMON_SKILLS) : Contains(COMMON_SKILLS[j], text) } }

\* list(set(found)): the order of the list is not defined, so it is a set
extract_skills_from_text(text) ==
    LET text_lower == Lower(text)
    IN  { COMMON_SKILLS[i] :
            i \in { j \in 1..Len(COMMON_SKILLS) : Contains(COMMON_SKILLS[j], text_lower) } }

(***************************************************************************)
(* Optional values: None is the empty tuple, Some(x) the one-element one.  *)
(* A CSV field read by pandas is Some(text), or None for NaN.              *)
(***************************************************************************)
None == << >>

Some(x) == << x >>

\* Series.fillna("")
fillna(f) == IF f = None THEN "" ELSE f[1]

\* str(value) of a dataframe cell: NaN prints as "nan"
Str(f) == IF f = None THEN "nan" ELSE f[1]

(***************************************************************************)
(* 4. Embedding engine.  A vector is a direction of the plane (a multiple  *)
(* of 45 degrees) and a length; the inner product of two vectors is the    *)
(* product of the lengths and of the cosine of the angle, in 1/10000.      *)
(***************************************************************************)
CosTable == << 10000, 7071, 0, -7071, -10000, -7071, 0, 7071 >>

CodeChars == " abcdefghijklmnopqrstuvwxyzABCDEFGHIJKLMNOPQRSTUVWXYZ0123456789.,:+#/-_"

CharCode(c) ==
    IF \E i \in 1..Len(CodeChars) : Char(CodeChars, i) = c
    THEN CHOOSE i \in 1..Len(CodeChars) : Char(CodeChars, i) = c
    ELSE 0

RECURSIVE CodeSum(_)
CodeSum(s) == IF s = "" THEN 0 ELSE CharCode(Head(s)) + CodeSum(Tail(s))

\* SentenceTransformer.encode: a fixed function of the text
Encode(text) ==
    [dir |-> CodeSum(text) % Len(CosTable), norm |-> 1 + (Len(text) % 3)]

\* sklearn.preprocessing.normalize: every row gets length 1
NormalizeRow(v) == [v EXCEPT !.norm = 1]

InnerProduct(a, b) ==
    a.norm * b.norm * CosTable[((a.dir - b.dir) % Len(CosTable)) + 1]

(***************************************************************************)
(* 3. Job data loader.                                                     *)
(***************************************************************************)
combined_text(row) ==
    fillna(row.title) \o ". " \o fillna(row.description) \o ". "
        \o "Required skills: " \o fillna(row.skills) \o ". "
        \o "Level: " \o fillna(row.experience_level)

\* load_jobs: the rows of the file, each with its combined_text
load_jobs(csv) ==
    [i \in 1..Len(csv) |->
        [job_id |-> csv[i].job_id, title |-> csv[i].title,
         description |-> csv[i].description, skills |-> csv[i].skills,
         experience_level |-> csv[i].experience_level,
         combined_text |-> combined_text(csv[i])]]

\* the rows a data/jobs.csv of the model is made of
JobRows ==
    { [job_id |-> 1, title |-> Some("Backend Engineer"), description |-> Some("APIs"),
       skills |-> Some("python, sql, docker"), experience_level |-> Some("Mid")],
      [job_id |-> 2, title |-> Some("Data Analyst"), description |-> None,
       skills |-> None, experience_level |-> Some("Junior")],
      [job_id |-> 3, title |-> Some("Statistician"), description |-> Some("Model"),
       skills |-> Some(" R ,Python"), experience_level |-> None] }

\* job_id is unique across the catalog; the rows are kept by ascending job_id
SortedById(csv) ==
    \A i, j \in 1..Len(csv) : i < j => csv[i].job_id < csv[j].job_id

\* the catalogs: at least one row, at most MaxJobs
Catalogs ==
    UNION { { c \in [1..n -> JobRows] : SortedById(c) } : n \in 1..MaxJobs }

RowsOf(csv) == { csv[i] : i \in 1..Len(csv) }

\* what _build_index computes from the loaded catalog (lines 154-156)
EncodeJobs(df) ==
    [i \in 1..Len(df) |-> NormalizeRow(Encode(df[i].combined_text))]

(***************************************************************************)
(* State.                                                                  *)
(***************************************************************************)
VARIABLES
    modelOK,        \* the SentenceTransformer model can be loaded
    jobsCsv,        \* data/jobs.csv: None when missing, else Some(rows)
    cacheFile,      \* data/faiss_index.pkl: None when absent, else Some(pickle)
    uploads,        \* the upload folder: the files in it, as [name, content]
    proc,           \* the process: "down", "up" or "failed" (start-up raised)
    boot,           \* what the last start-up did
    jobs_df,        \* self.jobs_df
    index,          \* self.index: None, or Some(the vectors of the FAISS index)
    job_embeddings, \* self.job_embeddings
    rpc,            \* where a running rebuild_index() stands
    embeddings,     \* the local variable embeddings of _build_index
    rb_old,         \* history: self.index as rebuild_index() found it
    resp,           \* the outcome of the last request or engine call
    sk_text,        \* the text handed to extract_skills_from_text
    sk_found        \* its result, once computed

engineVars == << jobs_df, index, job_embeddings >>

diskVars == << modelOK, jobsCsv, cacheFile, uploads >>

skillVars == << sk_text, sk_found >>

vars == << modelOK, jobsCsv, cacheFile, uploads, proc, boot, jobs_df, index,
           job_embeddings, rpc, embeddings, rb_old, resp, sk_text, sk_found >>

NoBoot == [outcome |-> "none", encoded |-> 0]

Init ==
    /\ modelOK \in BOOLEAN
    /\ jobsCsv \in {None} \cup { Some(c) : c \in Catalogs }
    /\ cacheFile = None
    /\ uploads = {}
    /\ proc = "down"
    /\ boot = NoBoot
    /\ jobs_df = None
    /\ index = None
    /\ job_embeddings = None
    /\ rpc = "idle"
    /\ embeddings = None
    /\ rb_old = None
    /\ resp = None
    /\ sk_text = ""
    /\ sk_found = None

(***************************************************************************)
(* The environment: the model is downloaded, the operator edits jobs.csv.  *)
(* The operator edits the catalog while no rebuild is running.             *)
(***************************************************************************)
InstallModel ==
    /\ resp = None
    /\ ~modelOK
    /\ modelOK' = TRUE
    /\ UNCHANGED << jobsCsv, cacheFile, uploads, proc, boot, engineVars, rpc,
                    embeddings, rb_old, resp, skillVars >>

\* the file is created, or one row is added to it, or one row is removed
EditCatalog ==
    /\ resp = None
    /\ rpc = "idle"
    /\ \/ /\ jobsCsv = None
          /\ \E c \in Catalogs : jobsCsv' = Some(c)
       \/ /\ jobsCsv # None
          /\ \E c \in Catalogs :
                /\ Len(c) = Len(jobsCsv[1]) + 1
                /\ RowsOf(jobsCsv[1]) \subseteq RowsOf(c)
                /\ jobsCsv' = Some(c)
       \/ /\ jobsCsv # None
          /\ \E c \in Catalogs :
                /\ Len(c) + 1 = Len(jobsCsv[1])
                /\ RowsOf(c) \subseteq RowsOf(jobsCsv[1])
                /\ jobsCsv' = Some(c)
    /\ UNCHANGED << modelOK, cacheFile, uploads, proc, boot, engineVars, rpc,
                    embeddings, rb_old, resp, skillVars >>

(***************************************************************************)
(* Start-up: app.py constructs the engine before it serves anything.       *)
(***************************************************************************)
\* SentenceTransformer(MODEL_NAME) raises
StartupModelFails ==
    /\ resp = None
    /\ proc = "down"
    /\ ~modelOK
    /\ proc' = "failed"
    /\ boot' = [outcome |-> "no_model", encoded |-> 0]
    /\ UNCHANGED << diskVars, engineVars, rpc, embeddings, rb_old, resp, skillVars >>

\* pd.read_csv raises
StartupCatalogFails ==
    /\ resp = None
    /\ proc = "down"
    /\ modelOK
    /\ jobsCsv = None
    /\ proc' = "failed"
    /\ boot' = [outcome |-> "no_catalog", encoded |-> 0]
    /\ UNCHANGED << diskVars, engineVars, rpc, embeddings, rb_old, resp, skillVars >>

\* a slip that ignores the cache and encodes the catalog again
StartupLoadReencodes ==
    /\ resp = None
    /\ proc = "down"
    /\ modelOK
    /\ jobsCsv # None
    /\ cacheFile # None
    /\ jobs_df' = Some(load_jobs(jobsCsv[1]))
    /\ index' = Some(EncodeJobs(load_jobs(jobsCsv[1])))
    /\ job_embeddings' = Some(EncodeJobs(load_jobs(jobsCsv[1])))
    /\ proc' = "up"
    /\ boot' = [outcome |-> "loaded", encoded |-> Len(jobsCsv[1])]
    /\ UNCHANGED << diskVars, rpc, embeddings, rb_old, resp, skillVars >>

\* the cache exists: it is unpickled and used as it is
StartupLoad ==
    /\ resp = None
    /\ proc = "down"
    /\ modelOK
    /\ jobsCsv # None
    /\ cacheFile # None
    /\ jobs_df' = Some(load_jobs(jobsCsv[1]))
    /\ index' = Some(cacheFile[1].index)
    /\ job_embeddings' = Some(cacheFile[1].embeddings)
    /\ proc' = "up"
    /\ boot' = [outcome |-> "loaded", encoded |-> 0]
    /\ UNCHANGED << diskVars, rpc, embeddings, rb_old, resp, skillVars >>

\* no cache: _build_index encodes the catalog and pickles the result
StartupBuild ==
    /\ resp = None
    /\ proc = "down"
    /\ modelOK
    /\ jobsCsv # None
    /\ cacheFile = None
    /\ LET df == load_jobs(jobsCsv[1])
           emb == EncodeJobs(df)
       IN  /\ jobs_df' = Some(df)
           /\ index' = Some(emb)
           /\ job_embeddings' = Some(emb)
           /\ cacheFile' = Some([index |-> emb, embeddings |-> emb])
           /\ boot' = [outcome |-> "built", encoded |-> Len(df)]
    /\ proc' = "up"
    /\ UNCHANGED << modelOK, jobsCsv, uploads, rpc, embeddings, rb_old, resp, skillVars >>

\* the process ends (or is killed) and with it the engine and any rebuild
ProcessExit ==
    /\ resp = None
    /\ proc # "down"
    /\ proc' = "down"
    /\ boot' = NoBoot
    /\ jobs_df' = None
    /\ index' = None
    /\ job_embeddings' = None
    /\ rpc' = "idle"
    /\ embeddings' = None
    /\ rb_old' = None
    /\ resp' = None
    /\ UNCHANGED << diskVars, skillVars >>

(***************************************************************************)
(* rebuild_index(), statement by statement: requests are served by other   *)
(* threads while it runs.                                                  *)
(***************************************************************************)
\* lines 171-172: the cache file is removed
RebuildRemove ==
    /\ resp = None
    /\ proc = "up"
    /\ rpc = "idle"
    /\ cacheFile' = None
    /\ rb_old' = index
    /\ rpc' = "removed"
    /\ UNCHANGED << modelOK, jobsCsv, uploads, proc, boot, engineVars,
                    embeddings, resp, skillVars >>

\* lines 154-156: the texts of self.jobs_df are encoded and normalized
BuildEncode ==
    /\ resp = None
    /\ rpc = "removed"
    /\ embeddings' = Some(EncodeJobs(jobs_df[1]))
    /\ rpc' = "encoded"
    /\ UNCHANGED << diskVars, proc, boot, engineVars, rb_old, resp, skillVars >>

\* lines 158-159: self.index becomes a new, empty IndexFlatIP
BuildCreate ==
    /\ resp = None
    /\ rpc = "encoded"
    /\ index' = Some(<< >>)
    /\ rpc' = "created"
    /\ UNCHANGED << diskVars, proc, boot, jobs_df, job_embeddings, embeddings, rb_old,
                    resp, skillVars >>

\* lines 160-161: the vectors are added to self.index
BuildAdd ==
    /\ resp = None
    /\ rpc = "created"
    /\ index' = Some(index[1] \o embeddings[1])
    /\ job_embeddings' = embeddings
    /\ rpc' = "added"
    /\ UNCHANGED << diskVars, proc, boot, jobs_df, embeddings, rb_old, resp, skillVars >>

\* lines 164-166: index and embeddings are pickled; rebuild_index returns
BuildSave ==
    /\ resp = None
    /\ rpc = "added"
    /\ cacheFile' = Some([index |-> index[1], embeddings |-> job_embeddings[1]])
    /\ rpc' = "idle"
    /\ embeddings' = None
    /\ rb_old' = None
    /\ UNCHANGED << modelOK, jobsCsv, uploads, proc, boot, engineVars, resp,
                    skillVars >>

(***************************************************************************)
(* IndexFlatIP.search and recommend().                                     *)
(***************************************************************************)
Min(a, b) == IF a < b THEN a ELSE b

Max(a, b) == IF a > b THEN a ELSE b

\* Python's round(num / den) for den > 0: to the nearest, ties to even
RoundHalfEven(num, den) ==
    LET q == num \div den
        r == num % den
    IN  IF 2 * r < den THEN q
        ELSE IF 2 * r > den THEN q + 1
        ELSE IF q % 2 = 0 THEN q ELSE q + 1

\* a slip that returns the min(k, ntotal) best positions worst first
TopHitsAscending(ix, q, k) ==
    LET n == Len(ix)
        m == Min(k, n)
        sc == [i \in 1..n |-> InnerProduct(ix[i], q)]
    IN  { h \in [1..m -> 1..n] :
            /\ \A i, j \in 1..m : h[i] = h[j] => i = j
            /\ \A i \in 1..(m - 1) : sc[h[i]] <= sc[h[i + 1]]
            /\ \A p \in 1..n :
                  (\A i \in 1..m : h[i] # p) => \A i \in 1..m : sc[p] <= sc[h[i]] }

\* the rows (1-based) search(q, k) can return for k >= 1: the min(k, ntotal)
\* best by inner product, best first; the order among equal scores is FAISS's
TopHits(ix, q, k) ==
    LET n == Len(ix)
        m == Min(k, n)
        sc == [i \in 1..n |-> InnerProduct(ix[i], q)]
    IN  { h \in [1..m -> 1..n] :
            /\ \A i, j \in 1..m : h[i] = h[j] => i = j
            /\ \A i \in 1..(m - 1) : sc[h[i]] >= sc[h[i + 1]]
            /\ \A p \in 1..n :
                  (\A i \in 1..m : h[i] # p) => \A i \in 1..m : sc[p] <= sc[h[i]] }

\* indices[0] and scores[0]: k entries, the missing ones with label -1
Labels(ix, q, k, h) ==
    [i \in 1..k |->
        IF i <= Len(h)
        THEN [rank |-> i, idx |-> h[i] - 1, score |-> InnerProduct(ix[h[i]], q)]
        ELSE [rank |-> i, idx |-> -1, score |-> 0]]

\* set(s.strip().lower() for s in str(row["skills"]).split(","))
JobSkills(skills) ==
    LET parts == Split(Str(skills), ",")
    IN  { Lower(Strip(parts[i])) : i \in 1..Len(parts) }

\* a slip that takes the share of the resume's skills, not of the job's
skill_match_pct_of_resume(matched, job_skills, resume_skills) ==
    RoundHalfEven(Cardinality(matched) * 1000, Max(Cardinality(resume_skills), 1))

\* round(len(matched) / max(len(job_skills), 1) * 100, 1), in tenths of a percent
skill_match_pct(matched, job_skills, resume_skills) ==
    RoundHalfEven(Cardinality(matched) * 1000, Max(Cardinality(job_skills), 1))

\* one element of results (lines 196-215); match_score in tenths of a percent
ResultRow(l, df, resume_text) ==
    LET row == df[l.idx + 1]
        resume_skills == extract_skills_from_text(resume_text)
        job_skills == JobSkills(row.skills)
        matched == resume_skills \cap job_skills
    IN  [rank |-> l.rank,
         job_id |-> row.job_id,
         title |-> row.title,
         skills |-> row.skills,
         match_score |-> RoundHalfEven(l.score, 10),
         matched_skills |-> matched,
         skill_match_pct |-> skill_match_pct(matched, job_skills, resume_skills)]

IsHit(l) == l.idx # -1

Outcome(fault, jobs, encoded, searched) ==
    [fault |-> fault, jobs |-> jobs, encoded |-> encoded, searched |-> searched]

\* a slip that tests the text without strip()
NoUsableTextUnstripped(resume_text) == resume_text = ""

\* line 182: not resume_text.strip()
NoUsableText(resume_text) == Strip(resume_text) = ""

\* the outcomes of recommend(resume_text, top_k) on index ix and catalog df
recommend(resume_text, top_k, ix, df) ==
    IF NoUsableText(resume_text)
    THEN { Outcome("", << >>, FALSE, FALSE) }
    ELSE IF top_k < 0
    THEN { Outcome("ValueError", << >>, TRUE, FALSE) }
    ELSE IF top_k = 0
    THEN { Outcome("AssertionError", << >>, TRUE, FALSE),
           Outcome("", << >>, TRUE, TRUE) }
    ELSE LET q == NormalizeRow(Encode(resume_text))
         IN  { LET ls == SelectSeq(Labels(ix, q, top_k, h), IsHit)
               IN  IF \E i \in 1..Len(ls) : ls[i].idx >= Len(df)
                   THEN Outcome("IndexError", << >>, TRUE, TRUE)
                   ELSE Outcome("", [i \in 1..Len(ls) |-> ResultRow(ls[i], df, resume_text)],
                                TRUE, TRUE)
               : h \in TopHits(ix, q, top_k) }

(***************************************************************************)
(* 1. Resume text extraction.  A file is [path, content]; a content is the *)
(* text of the document and whether PyMuPDF can open it.                   *)
(***************************************************************************)
RECURSIVE LastIndexOf(_, _)
\* str.rfind(c) + 1: 0 when c does not occur
LastIndexOf(s, c) ==
    IF s = "" THEN 0
    ELSE IF Char(s, Len(s)) = c THEN Len(s)
    ELSE LastIndexOf(SubSeq(s, 1, Len(s) - 1), c)

\* os.path.splitext(path)[1]
splitext(path) ==
    LET sep == LastIndexOf(path, "/")
        dot == LastIndexOf(path, ".")
    IN  IF dot > sep /\ \E i \in (sep + 1)..(dot - 1) : Char(path, i) # "."
        THEN SubSeq(path, dot, Len(path))
        ELSE ""

HasFile(fs, path) == \E f \in fs : f.path = path

FileAt(fs, path) == CHOOSE f \in fs : f.path = path

extract_text_from_pdf(fs, pdf_path) ==
    IF HasFile(fs, pdf_path) /\ FileAt(fs, pdf_path).content.pdf_ok
    THEN Strip(FileAt(fs, pdf_path).content.text)
    ELSE ""

extract_text_from_txt(fs, txt_path) ==
    IF HasFile(fs, txt_path)
    THEN Strip(FileAt(fs, txt_path).content.text)
    ELSE ""

extract_resume_text(fs, file_path) ==
    LET ext == Lower(splitext(file_path))
    IN  IF ext = ".pdf" THEN extract_text_from_pdf(fs, file_path)
        ELSE IF ext \in {".txt", ".text"} THEN extract_text_from_txt(fs, file_path)
        ELSE ""

\* the outcomes of recommend_from_file(file_path, top_k)
recommend_from_file(fs, file_path, top_k, ix, df) ==
    LET text == extract_resume_text(fs, file_path)
    IN  IF text = ""
        THEN { Outcome("", << >>, FALSE, FALSE) }
        ELSE recommend(text, top_k, ix, df)

(***************************************************************************)
(* app.py: helpers of the request handlers.                                *)
(***************************************************************************)
DEFAULT_TOP_K == 5

ALLOWED_EXTENSIONS == {"pdf", "txt"}

UPLOAD_FOLDER == "uploads"

Digits == "0123456789"

IsDigit(c) == \E i \in 1..Len(Digits) : Char(Digits, i) = c

DigitValue(c) == (CHOOSE i \in 1..Len(Digits) : Char(Digits, i) = c) - 1

RECURSIVE DigitsValue(_, _)
DigitsValue(s, acc) ==
    IF s = "" THEN acc ELSE DigitsValue(Tail(s), 10 * acc + DigitValue(Head(s)))

\* int(s) for a string: surrounding whitespace, a sign, decimal digits;
\* anything else raises ValueError (ok is FALSE)
ParseInt(s) ==
    LET t == Strip(s)
        signed == t # "" /\ Head(t) \in {"-", "+"}
        body == IF signed THEN Tail(t) ELSE t
    IN  IF body # "" /\ \A i \in 1..Len(body) : IsDigit(Char(body, i))
        THEN [ok |-> TRUE,
              val |-> IF signed /\ Head(t) = "-"
                      THEN 0 - DigitsValue(body, 0) ELSE DigitsValue(body, 0)]
        ELSE [ok |-> FALSE, val |-> 0]

\* int(request.form.get("top_k", 5)) and int(data.get("top_k", 5))
ParseTopK(raw) ==
    IF raw = None THEN [ok |-> TRUE, val |-> DEFAULT_TOP_K] ELSE ParseInt(raw[1])

\* "." in filename and filename.rsplit(".", 1)[1].lower() in ALLOWED_EXTENSIONS
allowed_file(filename) ==
    /\ Contains(".", filename)
    /\ Lower(SubSeq(filename, LastIndexOf(filename, ".") + 1, Len(filename)))
          \in ALLOWED_EXTENSIONS

RECURSIVE JoinWords(_, _)
\* "_".join(s.split()) on a stripped s: every run of whitespace becomes one "_"
JoinWords(s, inGap) ==
    IF s = "" THEN ""
    ELSE IF IsSpace(Head(s))
    THEN (IF inGap THEN "" ELSE "_") \o JoinWords(Tail(s), TRUE)
    ELSE Head(s) \o JoinWords(Tail(s), FALSE)

RECURSIVE ReplaceSeparators(_)
ReplaceSeparators(s) ==
    IF s = "" THEN ""
    ELSE (IF Head(s) = "/" THEN " " ELSE Head(s)) \o ReplaceSeparators(Tail(s))

IsFilenameChar(c) ==
    \/ \E i \in 1..26 : c = Char(UpperLetters, i) \/ c = Char(LowerLetters, i)
    \/ IsDigit(c)
    \/ c \in {"_", ".", "-"}

RECURSIVE KeepFilenameChars(_)
KeepFilenameChars(s) ==
    IF s = "" THEN ""
    ELSE (IF IsFilenameChar(Head(s)) THEN Head(s) ELSE "") \o KeepFilenameChars(Tail(s))

RECURSIVE StripDotsUnderscores(_)
StripDotsUnderscores(s) ==
    IF s # "" /\ Head(s) \in {".", "_"} THEN StripDotsUnderscores(Tail(s))
    ELSE IF s # "" /\ Char(s, Len(s)) \in {".", "_"}
    THEN StripDotsUnderscores(SubSeq(s, 1, Len(s) - 1))
    ELSE s

\* werkzeug.utils.secure_filename on ASCII names
secure_filename(filename) ==
    StripDotsUnderscores(
        KeepFilenameChars(JoinWords(Strip(ReplaceSeparators(filename)), FALSE)))

\* file.save(save_path): the file is created, or replaced
SaveFile(fs, path, content) ==
    { f \in fs : f.path # path } \cup { [path |-> path, content |-> content] }

\* os.remove(save_path)
RemoveFile(fs, path) == { f \in fs : f.path # path }

(***************************************************************************)
(* The inputs of the requests and of the engine calls.                     *)
(***************************************************************************)
ResumeTexts ==
    { "", " \n ", "I have 3 years experience with python and docker",
      "Python SQL Docker", "Excel" }

FormTopK == { None, Some("abc"), Some("0"), Some("-1"), Some("1"), Some(" 2 ") }

TopKs == (0 - 1)..(MaxJobs + 1)

UploadFiles ==
    { None,
      Some([filename |-> "", content |-> [text |-> "", pdf_ok |-> FALSE]]),
      Some([filename |-> "cv.doc", content |-> [text |-> "Excel", pdf_ok |-> FALSE]]),
      Some([filename |-> "cv.txt", content |-> [text |-> " \n ", pdf_ok |-> FALSE]]),
      Some([filename |-> "cv.txt",
            content |-> [text |-> "I have 3 years experience with python and docker",
                         pdf_ok |-> FALSE]]),
      Some([filename |-> "My CV.PDF", content |-> [text |-> "Python SQL Docker", pdf_ok |-> TRUE]]),
      Some([filename |-> "My CV.PDF", content |-> [text |-> "", pdf_ok |-> FALSE]]) }

FilePaths == { "uploads/cv.txt", "uploads/My_CV.PDF", "resume.text", "notes.doc" }

(***************************************************************************)
(* The outcome of a request: status "ok" is a 200 response or a returned   *)
(* list, "rejected" a 400 response with a reason, "fault" an exception     *)
(* that nothing catches.                                                   *)
(***************************************************************************)
Response(req, status, error, text, top_k, o, path) ==
    [req |-> req, status |-> status, error |-> error, text |-> text,
     top_k |-> top_k, jobs |-> o.jobs, encoded |-> o.encoded,
     searched |-> o.searched,
     index |-> IF o.searched THEN index ELSE None,
     old |-> rb_old,
     detected_skills |-> IF status = "ok" /\ req \in {"upload", "text"}
                         THEN Some(extract_skills_from_text(text)) ELSE None,
     path |-> path]

NotCalled == Outcome("", << >>, FALSE, FALSE)

Rejected(req, error, top_k, path) ==
    Response(req, "rejected", error, "", top_k, NotCalled, path)

\* the response to an engine outcome o
Answer(req, text, top_k, o, path) ==
    IF o.fault # ""
    THEN Response(req, "fault", o.fault, text, top_k, o, path)
    ELSE Response(req, "ok", "", text, top_k, o, path)

(***************************************************************************)
(* The engine's entry points, called while the process is up.              *)
(***************************************************************************)
CallRecommend ==
    /\ resp = None
    /\ proc = "up"
    /\ \E text \in ResumeTexts, k \in TopKs :
          \E o \in recommend(text, k, index[1], jobs_df[1]) :
              resp' = Answer("recommend", text, Some(k), o, None)
    /\ UNCHANGED << diskVars, proc, boot, engineVars, rpc, embeddings, rb_old,
                    skillVars >>

CallRecommendFromFile ==
    /\ resp = None
    /\ proc = "up"
    /\ \E path \in FilePaths, k \in TopKs :
          \E o \in recommend_from_file(uploads, path, k, index[1], jobs_df[1]) :
              resp' = Answer("from_file", extract_resume_text(uploads, path),
                             Some(k), o, Some(path))
    /\ UNCHANGED << diskVars, proc, boot, engineVars, rpc, embeddings, rb_old,
                    skillVars >>

(***************************************************************************)
(* The request handlers of app.py.                                         *)
(***************************************************************************)
\* POST /upload with form field top_k = raw and file part file
upload_resume(raw, file) ==
    LET top_k == ParseTopK(raw)
    IN  IF ~top_k.ok
        THEN /\ resp' = Response("upload", "fault", "ValueError", "", None, NotCalled, None)
             /\ uploads' = uploads
        ELSE IF file = None
        THEN /\ resp' = Rejected("upload", "No file part in request", Some(top_k.val), None)
             /\ uploads' = uploads
        ELSE IF file[1].filename = ""
        THEN /\ resp' = Rejected("upload", "No file selected", Some(top_k.val), None)
             /\ uploads' = uploads
        ELSE IF ~allowed_file(file[1].filename)
        THEN /\ resp' = Rejected("upload", "Only PDF and TXT files are supported",
                                 Some(top_k.val), None)
             /\ uploads' = uploads
        ELSE LET filename == secure_filename(file[1].filename)
                 save_path == UPLOAD_FOLDER \o "/" \o filename
                 saved == SaveFile(uploads, save_path, file[1].content)
                 resume_text == extract_resume_text(saved, save_path)
             IN  IF resume_text = ""
                 THEN /\ resp' = Rejected("upload", "Could not extract text from the file",
                                          Some(top_k.val), Some(save_path))
                      /\ uploads' = saved
                 ELSE \E o \in recommend_from_file(saved, save_path, top_k.val,
                                                   index[1], jobs_df[1]) :
                         /\ resp' = Answer("upload", resume_text, Some(top_k.val), o,
                                           Some(save_path))
                         /\ uploads' = IF o.fault # "" THEN saved
                                       ELSE RemoveFile(saved, save_path)

UploadResume ==
    /\ resp = None
    /\ proc = "up"
    /\ \E raw \in FormTopK, file \in UploadFiles : upload_resume(raw, file)
    /\ UNCHANGED << modelOK, jobsCsv, cacheFile, proc, boot, engineVars, rpc,
                    embeddings, rb_old, skillVars >>

\* POST /recommend-text with JSON body {"text": text, "top_k": raw}
recommend_text(text, raw) ==
    LET user_text == Strip(text)
        top_k == ParseTopK(raw)
    IN  IF ~top_k.ok
        THEN resp' = Response("text", "fault", "ValueError", "", None, NotCalled, None)
        ELSE IF user_text = ""
        THEN resp' = Rejected("text",
                        "Please provide some text describing your skills or experience",
                        Some(top_k.val), None)
        ELSE \E o \in recommend(user_text, top_k.val, index[1], jobs_df[1]) :
                resp' = Answer("text", user_text, Some(top_k.val), o, None)

RecommendText ==
    /\ resp = None
    /\ proc = "up"
    /\ \E text \in ResumeTexts, raw \in FormTopK : recommend_text(text, raw)
    /\ UNCHANGED << diskVars, proc, boot, engineVars, rpc, embeddings, rb_old,
                    skillVars >>

(***************************************************************************)
(* The caller receives the outcome.  A request is handled and answered     *)
(* before anything else moves: resp is only a record of the last outcome,  *)
(* no operation reads it.                                                  *)
(***************************************************************************)
Deliver ==
    /\ resp # None
    /\ resp' = None
    /\ UNCHANGED << diskVars, proc, boot, engineVars, rpc, embeddings, rb_old,
                    skillVars >>

(***************************************************************************)
(* The engine used as a library: start-up, the operator editing the        *)
(* catalog, rebuild_index() running next to recommend() calls.             *)
(***************************************************************************)
Next ==
    \/ InstallModel
    \/ EditCatalog
    \/ StartupModelFails
    \/ StartupCatalogFails
    \/ StartupLoad
    \/ StartupBuild
    \/ ProcessExit
    \/ RebuildRemove
    \/ BuildEncode
    \/ BuildCreate
    \/ BuildAdd
    \/ BuildSave
    \/ CallRecommend
    \/ Deliver

Spec == Init /\ [][Next]_vars

(***************************************************************************)
(* The web application: app.py starts the engine and serves requests; it   *)
(* never calls rebuild_index().  The catalog stays as deployed: what an    *)
(* edited catalog does to the engine is the subject of Spec.               *)
(***************************************************************************)
NextApp ==
    \/ StartupModelFails
    \/ StartupCatalogFails
    \/ StartupLoad
    \/ StartupBuild
    \/ ProcessExit
    \/ UploadResume
    \/ RecommendText
    \/ CallRecommend
    \/ CallRecommendFromFile
    \/ Deliver

SpecApp == Init /\ [][NextApp]_vars

(***************************************************************************)
(* extract_skills_from_text as a function of its input.                    *)
(***************************************************************************)
SkillChars == { "r", "R", "c", "+", " " }

RECURSIVE TextsOfLength(_)
TextsOfLength(n) ==
    IF n = 0 THEN { "" }
    ELSE { t \o c : t \in TextsOfLength(n - 1), c \in SkillChars }

SkillTexts ==
    UNION { TextsOfLength(n) : n \in 0..MaxTextLen }
        \cup { "I have 3 years experience with python and docker",
               "Python, React", "PYTHON, react" }

InitSkills ==
    /\ modelOK = TRUE
    /\ jobsCsv = None
    /\ cacheFile = None
    /\ uploads = {}
    /\ proc = "down"
    /\ boot = NoBoot
    /\ jobs_df = None
    /\ index = None
    /\ job_embeddings = None
    /\ rpc = "idle"
    /\ embeddings = None
    /\ rb_old = None
    /\ resp = None
    /\ sk_text \in SkillTexts
    /\ sk_found = None

ExtractSkills ==
    /\ sk_found = None
    /\ sk_found' = Some(extract_skills_from_text(sk_text))
    /\ UNCHANGED << diskVars, proc, boot, engineVars, rpc, embeddings, rb_old,
                    resp, sk_text >>

NextSkills == ExtractSkills

SpecSkills == InitSkills /\ [][NextSkills]_vars

(***************************************************************************)
(* Properties.                                                             *)
(***************************************************************************)
Answered == resp # None

\* C1: a start-up either loads the cache as it is, encoding nothing, or (no
\* cache) builds the index from the loaded catalog and pickles it; with no
\* model or no catalog it fails, and an engine that is up has an index.
C1_StartupOutcomes ==
    /\ [][ (proc = "down" /\ proc' # "down") =>
            \/ /\ proc' = "up"
               /\ cacheFile # None
               /\ index' = Some(cacheFile[1].index)
               /\ job_embeddings' = Some(cacheFile[1].embeddings)
               /\ boot'.encoded = 0
               /\ cacheFile' = cacheFile
            \/ /\ proc' = "up"
               /\ cacheFile = None
               /\ modelOK /\ jobsCsv # None
               /\ jobs_df' = Some(load_jobs(jobsCsv[1]))
               /\ index' = Some(EncodeJobs(jobs_df'[1]))
               /\ cacheFile' = Some([index |-> index'[1],
                                     embeddings |-> job_embeddings'[1]])
            \/ /\ proc' = "failed"
               /\ ~modelOK \/ jobsCsv = None
               /\ index' = None ]_vars
    /\ [][ (proc = "down" /\ proc' # "down" /\ (~modelOK \/ jobsCsv = None))
            => proc' = "failed" ]_vars
    /\ [](proc = "up" => index # None /\ jobs_df # None)
    /\ [](Answered => proc = "up")

\* C1 witness: the engine came up from an existing cache
C1_Witness == proc = "up" /\ boot.outcome = "loaded"

\* C2: when rebuild_index() returns, the index and the pickled cache hold one
\* vector per row of data/jobs.csv as it is on disk now, in row order.
C2_RebuildMatchesDisk ==
    [][ (rpc = "added" /\ rpc' = "idle" /\ proc' = "up") =>
          /\ cacheFile' # None
          /\ index' = Some(EncodeJobs(load_jobs(jobsCsv'[1])))
          /\ cacheFile'[1].index = EncodeJobs(load_jobs(jobsCsv'[1])) ]_vars

\* C3: a recommend call that runs while rebuild_index() is running searches
\* the complete old index or the complete new one.
C3_SearchSeesCompleteIndex ==
    (Answered /\ resp.searched /\ resp.top_k[1] >= 1 /\ resp.old # None) =>
        \/ resp.index = resp.old
        \/ resp.index = Some(EncodeJobs(jobs_df[1]))

\* C4: an upload or text request ends in a success or in a rejection with a
\* reason, never in an exception nothing catches.
C4_NoUnhandledFault ==
    (Answered /\ resp.req \in {"upload", "text"}) =>
        \/ resp.status = "ok"
        \/ resp.status = "rejected" /\ resp.error # ""

\* C5: once an upload request has completed, in success or in rejection, the
\* file it saved is no longer in the upload folder.
C5_UploadLeavesNoFile ==
    (Answered /\ resp.req = "upload" /\ resp.status \in {"ok", "rejected"}
        /\ resp.path # None) => ~HasFile(uploads, resp.path[1])

\* C6: the list recommend returns for a non-empty text has at most top_k and
\* at most ntotal elements (all ntotal when ntotal < top_k, none for an empty
\* index), its i-th element has rank i, and match_score never increases.
C6_ResultListShape ==
    (Answered /\ resp.status = "ok" /\ resp.encoded) =>
        LET n == Len(resp.index[1])
            k == resp.top_k[1]
            jobs == resp.jobs
        IN  /\ Len(jobs) <= k
            /\ Len(jobs) <= n
            /\ (n < k) => Len(jobs) = n
            /\ (n = 0) => jobs = << >>
            /\ \A i \in 1..Len(jobs) : jobs[i].rank = i
            /\ \A i \in 1..(Len(jobs) - 1) :
                  jobs[i].match_score >= jobs[i + 1].match_score

\* C6 witness: top_k exceeds the index size and two jobs come back
C6_Witness ==
    /\ Answered /\ resp.status = "ok" /\ resp.encoded
    /\ resp.top_k[1] > Len(resp.index[1])
    /\ Len(resp.jobs) = 2
    /\ resp.jobs[1].match_score > resp.jobs[2].match_score

\* C7: skill_match_pct (in tenths of a percent) lies in [0, 100]; it is 0
\* when resume skills and job skills do not intersect, 100 when every job
\* skill is a resume skill, and 0 when the job's skills field is missing.
C7_SkillMatchPct ==
    (Answered /\ resp.status = "ok") =>
        \A i \in 1..Len(resp.jobs) :
            LET r == resp.jobs[i]
                rs == extract_skills_from_text(resp.text)
                js == JobSkills(r.skills)
            IN  /\ r.skill_match_pct >= 0
                /\ r.skill_match_pct <= 1000
                /\ (rs \cap js = {}) => r.skill_match_pct = 0
                /\ (js \subseteq rs) => r.skill_match_pct = 1000
                /\ (r.skills = None) => r.skill_match_pct = 0

\* C7 witness: one answer with a job whose skills are all in the resume while
\* the resume has more, and a job without a skills field
C7_Witness ==
    /\ Answered /\ resp.status = "ok"
    /\ \E i \in 1..Len(resp.jobs) :
          /\ resp.jobs[i].skill_match_pct = 1000
          /\ JobSkills(resp.jobs[i].skills) # extract_skills_from_text(resp.text)
    /\ \E i \in 1..Len(resp.jobs) : resp.jobs[i].skills = None

\* C8: recommend returns the empty list for an empty or whitespace-only text
\* and any top_k >= 0, encoding and searching nothing; recommend_from_file
\* returns the empty list whenever extraction yields no text.
C8_NoTextNoResult ==
    /\ (Answered /\ resp.req = "recommend" /\ Strip(resp.text) = ""
            /\ resp.top_k[1] >= 0) =>
          /\ resp.status = "ok" /\ resp.jobs = << >>
          /\ ~resp.encoded /\ ~resp.searched
    /\ (Answered /\ resp.req = "from_file"
            /\ extract_resume_text(uploads, resp.path[1]) = "") =>
          /\ resp.status = "ok" /\ resp.jobs = << >>
          /\ ~resp.encoded /\ ~resp.searched

\* C8 witness: recommend was called with a whitespace-only text
C8_Witness ==
    /\ Answered /\ resp.req = "recommend"
    /\ resp.text # "" /\ Strip(resp.text) = ""
    /\ resp.jobs = << >>

\* the vocabulary entry occurs in the text, compared letter by letter
\* without regard to case
OccursIn(skill, text) ==
    \E i \in 1..(Len(text) - Len(skill) + 1) :
        \A j \in 1..Len(skill) :
            LowerChar(Char(text, i + j - 1)) = LowerChar(Char(skill, j))

VocabularyIn(text) ==
    { COMMON_SKILLS[i] : i \in { j \in 1..Len(COMMON_SKILLS) : OccursIn(COMMON_SKILLS[j], text) } }

ScenarioText == "I have 3 years experience with python and docker"

\* C9 as stated: extract_skills_from_text returns the vocabulary entries that
\* occur in the text without regard to case, and {"python", "docker"} for
\* the scenario's resume text.
C9_AsStated ==
    (sk_found # None) =>
        /\ sk_found[1] = VocabularyIn(sk_text)
        /\ (sk_text = ScenarioText) => sk_found[1] = {"python", "docker"}

\* C9 amended: extract_skills_from_text returns the vocabulary entries that
\* occur in the text without regard to case, and {"python", "docker", "r"}
\* for the scenario's resume text.
C9_SkillsExtracted ==
    (sk_found # None) =>
        /\ sk_found[1] = VocabularyIn(sk_text)
        /\ (sk_text = ScenarioText) => sk_found[1] = {"python", "docker", "r"}

\* C9 witness: the scenario's text has been processed
C9_Witness == sk_found # None /\ sk_text = ScenarioText

\* C10: with no rebuild running, the index has as many vectors as the loaded
\* catalog has rows, and no search result falls outside the catalog.
C10_IndexMatchesCatalog ==
    /\ (proc = "up" /\ rpc = "idle") => Len(index[1]) = Len(jobs_df[1])
    /\ Answered => resp.error # "IndexError"

====
